---- MODULE Spec2Model ----
(***************************************************************************)
(* Model of the MarsPro Home Assistant integration                         *)
(* (custom_components/marshydro/api.py and config_flow.py).                *)
(*                                                                         *)
(* Python values are dynamically typed; they are modelled as tagged        *)
(* records so that None, integers, texts and containers can be compared.   *)
(***************************************************************************)
EXTENDS Integers, Sequences, FiniteSets, TLC

VARIABLES
    pc,          \* position of the running update_data call (SpecCatalog)
    result,      \* update_data's local dict `result`
    requested,   \* groups whose list request has been issued in this call
    outcome,     \* per group: the wire response its list request received
    returned,    \* what the last update_data call returned (or that it raised)
    data,        \* coordinator.data: the snapshot the coordinator holds
    lights,      \* the MarsProLight entities (_device_id, _device_data)
    fans,        \* the MarsProFan entities
    observed,    \* the last state the host read from an entity
    lastOp,      \* the last entity command handler that ran, with its calls
    refreshRequested, \* coordinator.async_request_refresh() pending
    flow         \* the config flow: attempts and the last step's result

vars == <<pc, result, requested, outcome, returned, data, lights, fans,
          observed, lastOp, refreshRequested, flow>>

----------------------------------------------------------------------------
(* Python values *)

None == [t |-> "None"]
Absent == [t |-> "absent"]          \* a key that is not in a dict
PyInt(v) == [t |-> "int", v |-> v]
IsInt(x) == x.t = "int"

(* Model bounds *)
MaxRawSpeed == 840
MaxRawBright == 100
MaxAttempts == 5

(* Module constants of api.py *)
PRODUCT_GROUP_LIGHT == 1
PRODUCT_GROUP_FAN == 2
PRODUCT_GROUP_OTHER == <<3, 6, 7>>
Groups == {PRODUCT_GROUP_LIGHT, PRODUCT_GROUP_FAN} \cup
          {PRODUCT_GROUP_OTHER[i] : i \in DOMAIN PRODUCT_GROUP_OTHER}

(* Python's int() of a quotient a / b, b > 0: truncation toward zero *)
TruncDiv(a, b) == IF a >= 0 THEN a \div b ELSE -((-a) \div b)

Min(a, b) == IF a < b THEN a ELSE b
Max(a, b) == IF a > b THEN a ELSE b

----------------------------------------------------------------------------
(* deviceInfo: a text holding a JSON document.  A text is modelled by the  *)
(* document it encodes, or by the fact that it is not valid JSON.          *)

InvalidJson == [t |-> "invalid"]
JsonArray == [t |-> "array"]
JsonObject(key, val) == [t |-> "object", key |-> key, val |-> val]
EmptyObject == [t |-> "object", key |-> "", val |-> Absent]
Text(doc) == [t |-> "text", doc |-> doc]
SomeStr == [t |-> "str"]            \* a JSON string value such as "high"

(* json.loads(x): raises TypeError when x is not a text, JSONDecodeError   *)
(* when the text is not JSON; otherwise yields the document.               *)
Raise == [t |-> "raise"]
JsonLoads(x) ==
    IF x.t # "text" THEN Raise
    ELSE IF x.doc = InvalidJson THEN Raise
    ELSE x.doc

(* d.get(key, default) on a parsed document: AttributeError (Raise) when   *)
(* the document is not an object.                                          *)
DocGet(doc, key, default) ==
    IF doc.t # "object" THEN Raise
    ELSE IF doc.key = key /\ doc.val # Absent THEN doc.val
    ELSE default

(* A device record of a list response: a dict with these keys.             *)
Device(id, status, info) ==
    [id |-> id, deviceName |-> "dev", connectStatus |-> status, deviceInfo |-> info]

(* device_data.get(key, default) *)
DevGet(dev, key, default) == IF dev[key] = Absent THEN default ELSE dev[key]

Entity(dev) == [t |-> "entity", _device_id |-> dev.id, _device_data |-> dev]

----------------------------------------------------------------------------
(* MarsProFan / MarsProLight properties *)

Available(e) == DevGet(e._device_data, "connectStatus", None) = PyInt(1)

(* int(fan_speed / 8.4), clamped; the variant rounds to the nearest integer *)
FanScaleRound(s) == Min(Max((s * 10 + 42) \div 84, 25), 100)
FanScale(s) == Min(Max(TruncDiv(s * 10, 84), 25), 100)

FanPercentage(e) ==
    LET device_info == DevGet(e._device_data, "deviceInfo", Text(EmptyObject))
        info_dict == JsonLoads(device_info)
        fan_speed == IF info_dict = Raise THEN Raise
                     ELSE DocGet(info_dict, "fanSpeed", PyInt(0))
    IN  IF fan_speed = Raise THEN None
        ELSE IF fan_speed = PyInt(0) THEN PyInt(0)
        ELSE IF IsInt(fan_speed) THEN PyInt(FanScale(fan_speed.v))
        ELSE None                   \* None / 8.4, "x" / 8.4: TypeError, caught

(* int(last_bright * 255 / 100), clamped; the variant scales by 255 / 10 *)
BrightScaleWrong(r) == Min(Max(TruncDiv(r * 255, 10), 0), 255)
BrightScale(r) == Min(Max(TruncDiv(r * 255, 100), 0), 255)

LightBrightness(e) ==
    LET device_info == DevGet(e._device_data, "deviceInfo", Text(EmptyObject))
        info_dict == JsonLoads(device_info)
        last_bright == IF info_dict = Raise THEN Raise
                       ELSE DocGet(info_dict, "lastBright", PyInt(0))
    IN  IF last_bright = Raise THEN None
        ELSE IF IsInt(last_bright) THEN PyInt(BrightScale(last_bright.v))
        ELSE None                   \* None * 255, "x" * 255 / 100: TypeError, caught

(* is_on: self.brightness > 0; None > 0 raises TypeError *)
LightIsOn(e) ==
    LET b == LightBrightness(e)
    IN  IF IsInt(b) THEN [t |-> "bool", v |-> b.v > 0] ELSE Raise

----------------------------------------------------------------------------
(* MarsProApi *)

(* What the HTTP session hands back for one request: an exception (also a  *)
(* body that is not a JSON object), or a JSON object with a code and data. *)
WireExc == [t |-> "exc"]
WireJson(code, d) == [t |-> "json", code |-> code, data |-> d]
DataObject(l) == [t |-> "object", list |-> l]
PyList(items) == [t |-> "list", items |-> items]

(* _api_request: None on an exception or a code other than "000" *)
ApiRequest(wire) ==
    IF wire.t = "exc" THEN None
    ELSE IF wire.code # "000" THEN None
    ELSE wire

(* login: True iff the info request came back with code "000" *)
Login(wire) ==
    LET response == ApiRequest(wire)
    IN  response # None /\ response.code = "000"

(* response.get("data", {}).get("list", default); AttributeError (Raise)   *)
(* when "data" is present and not a dict (such as null).                   *)
GetList(response, default) ==
    LET d == IF response.data = Absent THEN DataObject(Absent) ELSE response.data
    IN  IF d.t # "object" THEN Raise
        ELSE IF d.list = Absent THEN default
        ELSE d.list

(* Python truthiness of a list value *)
Truthy(l) == l.t = "list" /\ Len(l.items) > 0

(* A dict keyed by group id; a group that is no key maps to Absent.        *)
Dict(f) == [t |-> "dict", d |-> f]
EmptyResult == Dict([g \in Groups |-> Absent])
HasKey(res, g) == res.d[g] # Absent

(* lines 156-166: the Light and Fan groups are stored whenever the request *)
(* succeeded.                                                              *)
MergeMain(res, g, response) ==
    IF response # None /\ response.code = "000"
    THEN LET l == GetList(response, PyList(<<>>))
         IN  IF l = Raise THEN Raise ELSE [res EXCEPT !.d[g] = l]
    ELSE res

(* The variant stores another group the way the Light and Fan groups are *)
MergeOtherKeepEmpty(res, g, response) == MergeMain(res, g, response)
(* lines 169-173: another group is stored only when its list is non-empty  *)
MergeOther(res, g, response) ==
    IF response # None /\ response.code = "000"
    THEN LET l == GetList(response, None)
         IN  IF l = Raise THEN Raise
             ELSE IF Truthy(l) THEN [res EXCEPT !.d[g] = GetList(response, PyList(<<>>))]
             ELSE res
    ELSE res

FetchOrder == <<PRODUCT_GROUP_LIGHT, PRODUCT_GROUP_FAN>> \o PRODUCT_GROUP_OTHER

Merge(res, g, response) ==
    IF g \in {PRODUCT_GROUP_LIGHT, PRODUCT_GROUP_FAN}
    THEN MergeMain(res, g, response)
    ELSE MergeOther(res, g, response)

(* update_data run to its end on the wire responses ws (one per group):    *)
(* the returned dict, or Raise.                                            *)
RECURSIVE UpdateFrom(_, _, _)
UpdateFrom(res, i, ws) ==
    IF i > Len(FetchOrder) THEN res
    ELSE LET g == FetchOrder[i]
             r == Merge(res, g, ApiRequest(ws[g]))
         IN  IF r = Raise THEN Raise ELSE UpdateFrom(r, i + 1, ws)

UpdateData(ws) == UpdateFrom(EmptyResult, 1, ws)

(* set_fan_speed: two calculate requests, then the log line reads          *)
(* cfm_response.get('data') and pa_response.get('data'): AttributeError    *)
(* when either response is None.                                           *)
SetFanSpeed(w1, w2) ==
    LET cfm_response == ApiRequest(w1)
        pa_response == ApiRequest(w2)
    IN  IF cfm_response = None \/ pa_response = None THEN Raise
        ELSE [t |-> "bool", v |-> TRUE]

(* set_light_brightness: logs and returns True *)
SetLightBrightness == [t |-> "bool", v |-> TRUE]

----------------------------------------------------------------------------
(* Entity command handlers.  A handler's run is recorded as the calls it   *)
(* made, in order, and whether it ended by raising.                        *)

Call(fn, id, arg) == [fn |-> fn, id |-> id, arg |-> arg]
RefreshCall == Call("async_request_refresh", "", None)
Op(entity, op, input, run) ==
    [entity |-> entity, op |-> op, input |-> input,
     calls |-> run.calls, raised |-> run.raised]
NoOp == [entity |-> "", op |-> "", input |-> None, calls |-> <<>>, raised |-> FALSE]

(* The variant clamps to 0..100 *)
ClampPercentageFromZero(p) == Min(Max(p, 0), 100)
(* min(max(int(percentage), 25), 100) *)
ClampPercentage(p) == Min(Max(p, 25), 100)

(* MarsProFan.async_set_percentage *)
AsyncSetPercentage(e, percentage, w1, w2) ==
    LET p0 == IF percentage = None THEN 0 ELSE percentage.v
        p == ClampPercentage(p0)
        res == SetFanSpeed(w1, w2)
        cmd == Call("set_fan_speed", e._device_id, PyInt(p))
    IN  IF res = Raise THEN [calls |-> <<cmd>>, raised |-> TRUE]
        ELSE IF res.v THEN [calls |-> <<cmd, RefreshCall>>, raised |-> FALSE]
        ELSE [calls |-> <<cmd>>, raised |-> FALSE]

(* MarsProFan.async_turn_on *)
FanAsyncTurnOn(e, percentage, w1, w2) ==
    IF percentage # None THEN AsyncSetPercentage(e, percentage, w1, w2)
    ELSE AsyncSetPercentage(e, PyInt(25), w1, w2)

(* MarsProFan.async_turn_off *)
FanAsyncTurnOff(e, w1, w2) == AsyncSetPercentage(e, PyInt(25), w1, w2)

(* int(brightness * 100 / 255) *)
BrightToRaw(b) == TruncDiv(b * 100, 255)

(* MarsProLight.async_turn_on; brightness is kwargs.get(ATTR_BRIGHTNESS)   *)
LightAsyncTurnOn(e, brightness) ==
    LET device_info == DevGet(e._device_data, "deviceInfo", Text(EmptyObject))
        info_dict == JsonLoads(device_info)
        last == IF info_dict = Raise THEN Raise
                ELSE DocGet(info_dict, "lastBright", PyInt(50))
        brightness_percentage ==
            IF brightness # None THEN PyInt(BrightToRaw(brightness.v))
            ELSE IF last = Raise THEN PyInt(50)
            ELSE last
        cmd == Call("set_light_brightness", e._device_id, brightness_percentage)
    IN  IF SetLightBrightness.v
        THEN [calls |-> <<cmd, RefreshCall>>, raised |-> FALSE]
        ELSE [calls |-> <<cmd>>, raised |-> FALSE]

(* MarsProLight.async_turn_off *)
LightAsyncTurnOff(e) ==
    LET cmd == Call("set_light_brightness", e._device_id, PyInt(0))
    IN  IF SetLightBrightness.v
        THEN [calls |-> <<cmd, RefreshCall>>, raised |-> FALSE]
        ELSE [calls |-> <<cmd>>, raised |-> FALSE]

Requests(run) == \E k \in DOMAIN run.calls : run.calls[k] = RefreshCall

----------------------------------------------------------------------------
(* Config flow (config_flow.py) *)

(* validate_input: the try block raises InvalidAuth when login() is false; *)
(* InvalidAuth is an Exception, so the except clause of the same try       *)
(* catches it and raises CannotConnect.                                    *)
IsException(exc) == exc \in {"InvalidAuth", "CannotConnect", "Exception"}

ValidateInput(user_input, wire) ==
    LET inTry == IF ~Login(wire) THEN [t |-> "raise", exc |-> "InvalidAuth"]
                 ELSE [t |-> "ok", title |-> user_input.name]
    IN  IF inTry.t = "raise" /\ IsException(inTry.exc)
        THEN [t |-> "raise", exc |-> "CannotConnect"]
        ELSE inTry

(* async_step_user with a user_input: the entry, or the form with errors   *)
StepUser(user_input, wire) ==
    LET info == ValidateInput(user_input, wire)
    IN  IF info.t = "ok"
        THEN [step |-> "create_entry", title |-> info.title, errors |-> ""]
        ELSE IF info.exc = "CannotConnect"
        THEN [step |-> "form", title |-> "", errors |-> "cannot_connect"]
        ELSE IF info.exc = "InvalidAuth"
        THEN [step |-> "form", title |-> "", errors |-> "invalid_auth"]
        ELSE [step |-> "form", title |-> "", errors |-> "unknown"]

(* What the remote service did to the login request of a setup attempt *)
Cause(wire) ==
    IF wire.t = "exc" THEN "transport"
    ELSE IF wire.code = "000" THEN "accepted"
    ELSE "declined"

NoFlow == [attempts |-> 0, step |-> "none", title |-> "", errors |-> "",
           cause |-> "", input |-> [username |-> "", password |-> "", name |-> ""]]

----------------------------------------------------------------------------
(* Input domains *)

LoginWires == {WireExc, WireJson("000", Absent), WireJson("401", Absent),
               WireJson("500", Absent)}
UserInputs == [username : {"alice", "bob"}, password : {"pw1", "pw2"},
               name : {"MarsPro", "Grow"}]

(* getCalculateSum responses *)
CalcWires == {WireExc, WireJson("500", Absent), WireJson("000", Absent)}

LightInfo(r) == Text(JsonObject("lastBright", PyInt(r)))
FanInfo(s) == Text(JsonObject("fanSpeed", PyInt(s)))
BadInfos(key) == {Absent, None, Text(InvalidJson), Text(JsonArray), Text(EmptyObject),
                  Text(JsonObject(key, None)), Text(JsonObject(key, SomeStr))}

(* Records for the codec: every raw level, and the undecodable payloads *)
LightCodecRecs ==
    {Device("light-1", PyInt(1), i) :
        i \in BadInfos("lastBright") \cup {LightInfo(r) : r \in 0..MaxRawBright}}
FanCodecRecs ==
    {Device("fan-1", PyInt(1), i) :
        i \in BadInfos("fanSpeed") \cup {FanInfo(s) : s \in 0..MaxRawSpeed}}

(* Records the remote service lists while the integration runs *)
LightRecs == {Device("light-1", st, i) :
                st \in {PyInt(0), PyInt(1)}, i \in {LightInfo(60), LightInfo(0)}}
             \cup {Device("light-1", PyInt(0), Text(InvalidJson))}
FanRecs == {Device("fan-1", st, i) :
                st \in {PyInt(0), PyInt(1)}, i \in {FanInfo(420), FanInfo(0)}}
           \cup {Device("fan-1", PyInt(0), Text(InvalidJson))}
OtherRec == Device("hub-1", PyInt(1), Absent)

ListWire(items) == WireJson("000", DataObject(PyList(items)))
(* Every shape of a list response *)
ListWires == {WireExc, WireJson("500", Absent), WireJson("000", Absent),
              WireJson("000", None), WireJson("000", DataObject(Absent)),
              WireJson("000", DataObject(None)), ListWire(<<>>),
              ListWire(<<OtherRec>>)}
MainWires(recs) == {WireExc, WireJson("000", None), ListWire(<<>>)}
                   \cup {ListWire(<<r>>) : r \in recs}
OtherWires == {ListWire(<<>>), ListWire(<<OtherRec>>)}
PollWires(wl, wf, wo) ==
    [g \in Groups |-> IF g = PRODUCT_GROUP_LIGHT THEN wl
                      ELSE IF g = PRODUCT_GROUP_FAN THEN wf ELSE wo]

Percentages == {None, PyInt(-5), PyInt(0), PyInt(24), PyInt(25), PyInt(60),
                PyInt(100), PyInt(101)}
Brightnesses == {None, PyInt(0), PyInt(1), PyInt(128), PyInt(255)}

NotRead == [kind |-> "none"]
Pending == [t |-> "pending"]

----------------------------------------------------------------------------
(* Initial states *)

InitCommon ==
    /\ pc = 0
    /\ result = EmptyResult
    /\ requested = {}
    /\ outcome = [g \in Groups |-> Absent]
    /\ returned = Pending
    /\ data = None
    /\ observed = NotRead
    /\ lastOp = NoOp
    /\ refreshRequested = FALSE
    /\ flow = NoFlow

(* The integration before async_setup_platform has run *)
Init == InitCommon /\ lights = <<>> /\ fans = <<>>

(* One entity, created from a listed device record *)
InitCodec ==
    /\ InitCommon
    /\ \/ \E r \in LightCodecRecs : lights = <<Entity(r)>> /\ fans = <<>>
       \/ \E r \in FanCodecRecs : fans = <<Entity(r)>> /\ lights = <<>>

----------------------------------------------------------------------------
(* update_data, one list request at a time *)

StartUpdate ==
    /\ pc = 0
    /\ pc' = 1
    /\ result' = EmptyResult
    /\ requested' = {}
    /\ outcome' = [g \in Groups |-> Absent]
    /\ returned' = Pending
    /\ UNCHANGED <<data, lights, fans, observed, lastOp, refreshRequested, flow>>

(* The request for FetchOrder[pc] receives w; the call raises, goes on to  *)
(* the next group, or returns result after the last one.                   *)
Fetch(w) ==
    LET g == FetchOrder[pc]
        r == Merge(result, g, ApiRequest(w))
    IN  /\ requested' = requested \cup {g}
        /\ outcome' = [outcome EXCEPT ![g] = w]
        /\ IF r = Raise
           THEN pc' = 0 /\ returned' = Raise /\ result' = result
           ELSE /\ result' = r
                /\ IF pc = Len(FetchOrder)
                   THEN pc' = 0 /\ returned' = r
                   ELSE pc' = pc + 1 /\ returned' = returned
        /\ UNCHANGED <<data, lights, fans, observed, lastOp, refreshRequested, flow>>

FetchLight(w) == pc = 1 /\ Fetch(w)
FetchFan(w) == pc = 2 /\ Fetch(w)
FetchOther(w) == pc > 2 /\ Fetch(w)

----------------------------------------------------------------------------
(* The platform: setup, the coordinator's polls, the entities' handlers    *)

(* Entities for the devices of one group of coordinator.data *)
EntitiesOf(snapshot, g) ==
    IF HasKey(snapshot, g)
    THEN [k \in DOMAIN snapshot.d[g].items |-> Entity(snapshot.d[g].items[k])]
    ELSE <<>>

(* A value the entity loop cannot iterate (a null list): TypeError *)
Iterable(snapshot) ==
    \A g \in Groups : HasKey(snapshot, g) => snapshot.d[g].t = "list"

(* async_setup_platform: login (its result is not looked at), the first    *)
(* refresh, then one entity per Light and Fan device.  The refresh keeps   *)
(* data None when update_data raises; the entity loop then raises and no   *)
(* entity is added.                                                        *)
Setup(wlogin, ws) ==
    LET r == UpdateData(ws)
        first == IF r = Raise THEN None ELSE r
    IN  /\ data = None /\ lights = <<>> /\ fans = <<>>
        /\ data' = first
        /\ IF first # None /\ Iterable(first)
           THEN /\ lights' = EntitiesOf(first, PRODUCT_GROUP_LIGHT)
                /\ fans' = EntitiesOf(first, PRODUCT_GROUP_FAN)
           ELSE UNCHANGED <<lights, fans>>
        /\ refreshRequested' = FALSE
        /\ UNCHANGED <<pc, result, requested, outcome, returned, observed, lastOp, flow>>

(* A coordinator refresh (on its interval, or requested): update_data's    *)
(* dict replaces coordinator.data; when it raises the data is kept.        *)
Poll(ws) ==
    LET r == UpdateData(ws)
    IN  /\ ~(data = None /\ lights = <<>> /\ fans = <<>>)
        /\ data' = IF r = Raise THEN data ELSE r
        /\ refreshRequested' = FALSE
        /\ UNCHANGED <<pc, result, requested, outcome, returned, lights, fans,
                       observed, lastOp, flow>>

Ran(entity, op, input, run) ==
    /\ lastOp' = Op(entity, op, input, run)
    /\ refreshRequested' = (refreshRequested \/ Requests(run))
    /\ UNCHANGED <<pc, result, requested, outcome, returned, data, lights, fans,
                   observed, flow>>

FanSetPercentage(i, p, w1, w2) ==
    Ran("fan", "set_percentage", p, AsyncSetPercentage(fans[i], p, w1, w2))
FanTurnOn(i, p, w1, w2) ==
    Ran("fan", "turn_on", p, FanAsyncTurnOn(fans[i], p, w1, w2))
FanTurnOff(i, w1, w2) ==
    Ran("fan", "turn_off", None, FanAsyncTurnOff(fans[i], w1, w2))
LightTurnOn(i, b) ==
    Ran("light", "turn_on", b, LightAsyncTurnOn(lights[i], b))
LightTurnOff(i) ==
    Ran("light", "turn_off", None, LightAsyncTurnOff(lights[i]))

(* The host reads an entity's state properties *)
ReadFan(i) ==
    /\ observed' = [kind |-> "fan", id |-> fans[i]._device_id,
                    level |-> FanPercentage(fans[i]),
                    is_on |-> None,
                    available |-> Available(fans[i])]
    /\ UNCHANGED <<pc, result, requested, outcome, returned, data, lights, fans,
                   lastOp, refreshRequested, flow>>
ReadLight(i) ==
    /\ observed' = [kind |-> "light", id |-> lights[i]._device_id,
                    level |-> LightBrightness(lights[i]),
                    is_on |-> LightIsOn(lights[i]),
                    available |-> Available(lights[i])]
    /\ UNCHANGED <<pc, result, requested, outcome, returned, data, lights, fans,
                   lastOp, refreshRequested, flow>>

(* The host turns a light on at the brightness it last read from it *)
LightTurnOnAsRead(i) ==
    /\ observed.kind = "light" /\ observed.id = lights[i]._device_id
    /\ IsInt(observed.level)
    /\ lastOp = NoOp
    /\ lastOp' = Op("light", "turn_on", observed.level,
                    LightAsyncTurnOn(lights[i], observed.level))
    /\ refreshRequested' = TRUE
    /\ UNCHANGED <<pc, result, requested, outcome, returned, data, lights, fans,
                   observed, flow>>

(* MarsProConfigFlow.async_step_user *)
ShowForm ==
    /\ flow.step = "none"
    /\ flow' = [flow EXCEPT !.step = "form"]
    /\ UNCHANGED <<pc, result, requested, outcome, returned, data, lights, fans,
                   observed, lastOp, refreshRequested>>
SubmitUser(user_input, wire) ==
    /\ flow.step = "form"
    /\ flow.attempts < MaxAttempts
    /\ LET out == StepUser(user_input, wire)
       IN  flow' = [attempts |-> flow.attempts + 1, step |-> out.step,
                    title |-> out.title, errors |-> out.errors,
                    cause |-> Cause(wire), input |-> user_input]
    /\ UNCHANGED <<pc, result, requested, outcome, returned, data, lights, fans,
                   observed, lastOp, refreshRequested>>

(* The platform once async_setup_platform has created the entities from   *)
(* the first snapshot                                                      *)
InitControl ==
    /\ pc = 0
    /\ result = EmptyResult
    /\ requested = {}
    /\ outcome = [g \in Groups |-> Absent]
    /\ returned = Pending
    /\ observed = NotRead
    /\ lastOp = NoOp
    /\ refreshRequested = FALSE
    /\ flow = NoFlow
    /\ \E wl \in MainWires(LightRecs), wf \in MainWires(FanRecs), wo \in OtherWires :
         LET first == UpdateData(PollWires(wl, wf, wo))
         IN  /\ first # Raise
             /\ data = first
             /\ lights = EntitiesOf(first, PRODUCT_GROUP_LIGHT)
             /\ fans = EntitiesOf(first, PRODUCT_GROUP_FAN)

----------------------------------------------------------------------------
(* Specifications *)

Next ==
    \/ \E wlogin \in LoginWires, wl \in MainWires(LightRecs),
          wf \in MainWires(FanRecs), wo \in OtherWires :
            Setup(wlogin, PollWires(wl, wf, wo))
    \/ \E wl \in MainWires(LightRecs), wf \in MainWires(FanRecs), wo \in OtherWires :
            Poll(PollWires(wl, wf, wo))

Spec == Init /\ [][Next]_vars

NextControl ==
    \/ \E i \in DOMAIN fans, p \in Percentages, w1, w2 \in CalcWires :
            FanSetPercentage(i, p, w1, w2)
    \/ \E i \in DOMAIN fans, p \in Percentages, w1, w2 \in CalcWires :
            FanTurnOn(i, p, w1, w2)
    \/ \E i \in DOMAIN fans, w1, w2 \in CalcWires : FanTurnOff(i, w1, w2)
    \/ \E i \in DOMAIN lights, b \in Brightnesses : LightTurnOn(i, b)
    \/ \E i \in DOMAIN lights : LightTurnOff(i)

SpecControl == InitControl /\ [][NextControl]_vars

NextCatalog ==
    \/ StartUpdate
    \/ \E w \in ListWires : FetchLight(w)
    \/ \E w \in ListWires : FetchFan(w)
    \/ \E w \in ListWires : FetchOther(w)

SpecCatalog == Init /\ [][NextCatalog]_vars

NextCodec ==
    \/ \E i \in DOMAIN fans : ReadFan(i)
    \/ \E i \in DOMAIN lights : ReadLight(i)
    \/ \E i \in DOMAIN lights : LightTurnOnAsRead(i)

SpecCodec == InitCodec /\ [][NextCodec]_vars

NextFlow ==
    \/ ShowForm
    \/ \E user_input \in UserInputs, wire \in LoginWires : SubmitUser(user_input, wire)

SpecFlow == Init /\ [][NextFlow]_vars

----------------------------------------------------------------------------
(* Properties *)

OtherGroups == {PRODUCT_GROUP_OTHER[i] : i \in DOMAIN PRODUCT_GROUP_OTHER}

(* The list request of group g was issued and failed: a transport          *)
(* exception or a status other than "000".                                 *)
RequestFailed(g) ==
    /\ outcome[g] # Absent
    /\ \/ outcome[g].t = "exc"
       \/ outcome[g].t = "json" /\ outcome[g].code # "000"

(* The list request of group g succeeded and listed at least one device *)
SucceededWithDevices(g) ==
    /\ outcome[g] # Absent
    /\ outcome[g].t = "json"
    /\ outcome[g].code = "000"
    /\ outcome[g].data.t = "object"
    /\ outcome[g].data.list.t = "list"
    /\ Len(outcome[g].data.list.items) > 0

UpdateEnded == pc = 0 /\ returned # Pending

(* C1: whatever each group's request met, update_data issues the list      *)
(* request for every group, raises nothing, leaves every failed group out  *)
(* of the returned snapshot and keeps every group that succeeded with      *)
(* devices.                                                                *)
C1_PartialSuccess ==
    UpdateEnded =>
        /\ requested = Groups
        /\ returned # Raise
        /\ \A g \in Groups :
            /\ RequestFailed(g) => ~HasKey(returned, g)
            /\ SucceededWithDevices(g) => HasKey(returned, g)

(* C1 holds of every call in which no response with code "000" carries a   *)
(* data that is null.                                                      *)
PartialSuccessWhenDataIsObject ==
    (UpdateEnded /\ \A g \in Groups : outcome[g] # WireJson("000", None)) =>
        /\ requested = Groups
        /\ returned # Raise
        /\ \A g \in Groups :
            /\ RequestFailed(g) => ~HasKey(returned, g)
            /\ SucceededWithDevices(g) => HasKey(returned, g)

(* C2: in a returned snapshot an "other" group (3, 6, 7) is a key only if  *)
(* its request succeeded with a non-empty device list; the list stored is  *)
(* the one returned.                                                       *)
C2_OtherOnlyIfNonEmpty ==
    (UpdateEnded /\ returned # Raise) =>
        \A g \in OtherGroups :
            HasKey(returned, g) =>
                /\ SucceededWithDevices(g)
                /\ returned.d[g] = outcome[g].data.list

C2_Witness ==
    /\ UpdateEnded /\ returned # Raise
    /\ outcome[3] = ListWire(<<>>) /\ ~HasKey(returned, 3)
    /\ outcome[6] = WireJson("000", DataObject(Absent)) /\ ~HasKey(returned, 6)
    /\ outcome[7] = ListWire(<<OtherRec>>) /\ HasKey(returned, 7)

(* C3: every percentage a fan handler hands to set_fan_speed is in         *)
(* 25..100 (so never 0); turn_off, and turn_on without a percentage,       *)
(* command exactly 25; each fan handler commands one percentage.           *)
C3_FanSpeedRange ==
    lastOp.entity = "fan" =>
        /\ \E k \in DOMAIN lastOp.calls : lastOp.calls[k].fn = "set_fan_speed"
        /\ \A k \in DOMAIN lastOp.calls :
            lastOp.calls[k].fn = "set_fan_speed" =>
                /\ lastOp.calls[k].arg.v >= 25
                /\ lastOp.calls[k].arg.v <= 100
                /\ (lastOp.op = "turn_off" => lastOp.calls[k].arg.v = 25)
                /\ (lastOp.op = "turn_on" /\ lastOp.input = None
                        => lastOp.calls[k].arg.v = 25)

C3_Witness ==
    /\ lastOp.entity = "fan" /\ lastOp.op = "turn_off"
    /\ lastOp.calls[1] = Call("set_fan_speed", "fan-1", PyInt(25))

(* The device records the newest snapshot lists for an entity's device *)
ListedFor(g, e) ==
    IF data # None /\ HasKey(data, g) /\ data.d[g].t = "list"
    THEN {data.d[g].items[k] : k \in {j \in DOMAIN data.d[g].items :
                                        data.d[g].items[j].id = e._device_id}}
    ELSE {}

(* C4: a controller whose device's last-known connectStatus (the one the   *)
(* newest snapshot lists for it) is not 1 reports available = false,       *)
(* whatever its level decodes to: one that reports available = true has a  *)
(* last-known connectStatus of 1.                                          *)
C4_UnavailableWhenNotConnected ==
    /\ \A i \in DOMAIN fans : \A rec \in ListedFor(PRODUCT_GROUP_FAN, fans[i]) :
            rec.connectStatus # PyInt(1) => ~Available(fans[i])
    /\ \A i \in DOMAIN lights : \A rec \in ListedFor(PRODUCT_GROUP_LIGHT, lights[i]) :
            rec.connectStatus # PyInt(1) => ~Available(lights[i])

(* C5: a setup attempt whose login was declined ends on the form with the  *)
(* error invalid_auth, one that met a transport failure with               *)
(* cannot_connect, so the two never share an error key; neither creates an *)
(* entry.                                                                  *)
C5_DistinctSetupErrors ==
    flow.attempts > 0 =>
        /\ flow.cause = "declined" =>
                flow.step = "form" /\ flow.errors = "invalid_auth"
        /\ flow.cause = "transport" =>
                flow.step = "form" /\ flow.errors = "cannot_connect"

(* deviceInfo is missing, or is a text that is not valid JSON *)
Malformed(e) == e._device_data.deviceInfo \in {Absent, Text(InvalidJson)}

(* C6: reading a light's brightness or a fan's percentage from a malformed *)
(* or missing deviceInfo yields 0, and the light's is_on is then false,    *)
(* nothing being raised.                                                   *)
C6_MalformedDecodesToZero ==
    /\ observed.kind = "light" /\ Malformed(lights[1]) =>
            /\ observed.level = PyInt(0)
            /\ observed.is_on = [t |-> "bool", v |-> FALSE]
    /\ observed.kind = "fan" /\ Malformed(fans[1]) => observed.level = PyInt(0)

(* The integer an entity's deviceInfo carries under key, if it carries one *)
HasRaw(e, key) ==
    /\ e._device_data.deviceInfo.t = "text"
    /\ e._device_data.deviceInfo.doc.t = "object"
    /\ e._device_data.deviceInfo.doc.key = key
    /\ IsInt(e._device_data.deviceInfo.doc.val)
RawOf(e) == e._device_data.deviceInfo.doc.val.v

(* C7 as stated: for raw s in 0..840 the percentage is 0 when s = 0 and    *)
(* otherwise clamp(q, 25, 100) for q the integer nearest to s / 8.4.       *)
C7_FanPercentageRounded ==
    (observed.kind = "fan" /\ HasRaw(fans[1], "fanSpeed")
        /\ RawOf(fans[1]) >= 0 /\ RawOf(fans[1]) <= 840) =>
        LET s == RawOf(fans[1])
        IN  /\ IsInt(observed.level)
            /\ s = 0 => observed.level.v = 0
            /\ s > 0 => \E q \in 0..100 :
                            /\ 84 * q - 42 <= 10 * s
                            /\ 10 * s <= 84 * q + 42
                            /\ observed.level.v = Min(Max(q, 25), 100)

(* C7, amended: for raw s in 0..840 the percentage is 0 when s = 0 and     *)
(* otherwise clamp(q, 25, 100) for q the integer part of s / 8.4 (rounded  *)
(* down); it is in {0} \cup 25..100, with 0 -> 0, 50 -> 25, 420 -> 50 and  *)
(* 840 -> 100.                                                             *)
C7_FanPercentageTruncated ==
    (observed.kind = "fan" /\ HasRaw(fans[1], "fanSpeed")
        /\ RawOf(fans[1]) >= 0 /\ RawOf(fans[1]) <= 840) =>
        LET s == RawOf(fans[1])
            p == observed.level.v
        IN  /\ IsInt(observed.level)
            /\ s = 0 => p = 0
            /\ s > 0 => /\ p >= 25 /\ p <= 100
                        /\ \E q \in 0..100 :
                            /\ 84 * q <= 10 * s
                            /\ 10 * s < 84 * (q + 1)
                            /\ p = Min(Max(q, 25), 100)
            /\ s = 50 => p = 25
            /\ s = 420 => p = 50
            /\ s = 840 => p = 100

C7_Witness ==
    /\ observed.kind = "fan" /\ HasRaw(fans[1], "fanSpeed")
    /\ RawOf(fans[1]) = 417
    /\ observed.level = PyInt(49)

(* C8: for raw brightness r in 0..100 the brightness read is in 0..255,    *)
(* and turning the light on at the brightness read commands a raw value    *)
(* within 1 of r.                                                          *)
C8_BrightnessRoundTrip ==
    /\ (observed.kind = "light" /\ HasRaw(lights[1], "lastBright")
            /\ RawOf(lights[1]) >= 0 /\ RawOf(lights[1]) <= 100) =>
            /\ IsInt(observed.level)
            /\ observed.level.v >= 0 /\ observed.level.v <= 255
    /\ (lastOp.entity = "light" /\ lastOp.op = "turn_on"
            /\ HasRaw(lights[1], "lastBright")
            /\ RawOf(lights[1]) >= 0 /\ RawOf(lights[1]) <= 100) =>
            /\ lastOp.input = observed.level
            /\ lastOp.calls[1].fn = "set_light_brightness"
            /\ lastOp.calls[1].arg.v - RawOf(lights[1]) <= 1
            /\ RawOf(lights[1]) - lastOp.calls[1].arg.v <= 1

C8_Witness ==
    /\ lastOp.entity = "light" /\ lastOp.op = "turn_on"
    /\ HasRaw(lights[1], "lastBright") /\ RawOf(lights[1]) = 50
    /\ lastOp.input = PyInt(127)
    /\ lastOp.calls[1].arg = PyInt(49)

(* C9: every handler run issues its command through the client and then    *)
(* requests exactly one refresh, whatever the remote service answered; it  *)
(* never ends without the refresh request.                                 *)
C9_CommandThenRefresh ==
    lastOp # NoOp =>
        /\ ~lastOp.raised
        /\ Len(lastOp.calls) = 2
        /\ lastOp.calls[1].fn \in {"set_fan_speed", "set_light_brightness"}
        /\ lastOp.calls[2] = RefreshCall

(* C10: when the newest snapshot lists a controller's device, the level    *)
(* and availability the controller reports are those of the listed record. *)
C10_ControllersReadSnapshot ==
    /\ \A i \in DOMAIN fans : \A rec \in ListedFor(PRODUCT_GROUP_FAN, fans[i]) :
            /\ FanPercentage(fans[i]) = FanPercentage(Entity(rec))
            /\ Available(fans[i]) = Available(Entity(rec))
    /\ \A i \in DOMAIN lights : \A rec \in ListedFor(PRODUCT_GROUP_LIGHT, lights[i]) :
            /\ LightBrightness(lights[i]) = LightBrightness(Entity(rec))
            /\ Available(lights[i]) = Available(Entity(rec))

====
